---------------------------- MODULE Spec2Model ----------------------------
(***************************************************************************)
(* PlanSearchExecutorSK.generate_response: intent analysis, search         *)
(* planning, web / video / document retrieval, context budgeting, prompt   *)
(* assembly and (streamed) generation, as a state machine.                 *)
(*                                                                         *)
(* One behaviour is one call of generate_response.  The caller's arguments *)
(* (req) and the environment the collaborators live in (env) are fixed by  *)
(* Init; every action is the code between two awaits of the generator.     *)
(* out is the sequence of fragments the generator has yielded, calls the   *)
(* log of collaborator invocations with their outcomes.                    *)
(***************************************************************************)
EXTENDS Integers, Sequences, FiniteSets, TLC

(***************************************************************************)
(* Bounds of the model.                                                    *)
(***************************************************************************)
\* longest search plan the planner returns in the ordinary environments
MaxPlan == 2
\* most content-bearing chunks one streamed completion delivers
MaxChunks == 2
\* most collaborator calls of one request that fail or come back empty
MaxFaults == 2
\* most arguments of one call that differ from the signature's defaults
MaxOverrides == 2
\* length of the search plan in the bulk environment (enough big documents
\* to reach the global ceiling, and one query more)
BulkPlan == 21
\* most collaborator calls that fail in the bulk environment
BulkFaults == 1
\* most collaborator calls that fail when one request is run twice
TwinFaults == 1

(***************************************************************************)
(* Program constants.                                                      *)
(***************************************************************************)
MAX_CONTEXT_LENGTH == 400000
MAX_DOCUMENT_LENGTH == 10000
\* len("... [truncated]")
TRUNCATED_MARKER_LEN == 15
\* documents[:2]
DOCS_PER_QUERY == 2

(***************************************************************************)
(* Values.  A text is a record [s, a, b]: s names it, a and b number it    *)
(* (f"doc_{i}_{doc_idx}" is [s |-> "doc", a |-> i, b |-> doc_idx]).         *)
(***************************************************************************)
T(x) == [s |-> x, a |-> 0, b |-> 0]
T2(x, m, n) == [s |-> x, a |-> m, b |-> n]
\* Python's None / a key that is missing
NONE == T("<None>")
\* the empty string
EMPTY == T("")
Truthy(x) == x # NONE /\ x # EMPTY

\* a local name that has not been assigned / that holds v
UNBOUND == <<>>
Bound(v) == <<v>>
IsBound(x) == x # UNBOUND
Val(x) == x[1]

NO_QUESTION == T("No question provided")

Msg(role, content) == [role |-> role, content |-> content]


(***************************************************************************)
(* The caller's arguments (lines 122-138).                                 *)
(***************************************************************************)
SearchEngines == {"BING_SEARCH_CRAWLING", "BING_GROUNDING", "BING_GROUNDING_CRAWLING"}

\* message lists: none, no user message, an empty user message, a
\* conversation whose latest user message is "q"
Conversation ==
    << Msg("user", T("q-old")), Msg("assistant", T("a")), Msg("user", T("q")) >>

MessageLists ==
    { <<>>,
      << Msg("system", T("s")), Msg("assistant", T("a")) >>,
      << Msg("user", EMPTY) >>,
      Conversation }

\* the defaults of the signature
DefaultRequest(m) ==
    [ messages |-> m, planning |-> TRUE, search_engine |-> "BING_SEARCH_CRAWLING",
      stream |-> FALSE, elapsed_time |-> TRUE, include_web_search |-> TRUE,
      include_ytb_search |-> TRUE, include_mcp_server |-> TRUE,
      include_ai_search |-> TRUE, verbose |-> FALSE ]

AllRequests ==
    [ messages : MessageLists, planning : BOOLEAN, search_engine : SearchEngines,
      stream : BOOLEAN, elapsed_time : BOOLEAN, include_web_search : BOOLEAN,
      include_ytb_search : BOOLEAN, include_mcp_server : BOOLEAN,
      include_ai_search : BOOLEAN, verbose : BOOLEAN ]

Flags ==
    { "planning", "search_engine", "stream", "elapsed_time", "include_web_search",
      "include_ytb_search", "include_mcp_server", "include_ai_search", "verbose" }

\* the arguments of r that are not the signature's defaults
Overrides(r) == { f \in Flags : r[f] # DefaultRequest(r.messages)[f] }

Requests == { r \in AllRequests : Cardinality(Overrides(r)) <= MaxOverrides }

(***************************************************************************)
(* Fragments of the output sequence.                                       *)
(***************************************************************************)
Frag(kind, label, arg) == [kind |-> kind, label |-> label, arg |-> arg]
\* f"data: ### {label} ...\n\n" and the verbose "### step#code#..." forms
Status(label, arg) == Frag("status", label, arg)
\* " \n" and "\n", the fragments that clear markdown formatting
Blank(label) == Frag("blank", label, <<>>)
\* the text of the completion, or one chunk of it
Answer(arg) == Frag("answer", "content", arg)
Elapsed == Frag("elapsed", "Plan search response generated successfully", <<>>)
ErrorFrag(e) == Frag("error", "Error: ", <<T(e)>>)
InputNeeded == Frag("input_needed", "input_needed", <<>>)

\* `if cond: yield frag`
Emit(o, cond, frag) == IF cond THEN Append(o, frag) ELSE o

\* status labels that report a failure to the consumer
ErrorLabels == { "intent_failed", "web_error", "youtube_error", "doc_error" }

(***************************************************************************)
(* State.                                                                  *)
(***************************************************************************)
VARIABLES
    req,                      \* the arguments of the call
    env,                      \* what the collaborators can answer
    faults,                   \* collaborator calls that failed so far
    pc,                       \* where the generator is suspended
    last_user_message, enriched_query, search_queries, user_intent,
    planning, include_web_search, include_ytb_search,
    all_contexts,
    i,                        \* queries the running stage has completed
    web_search_contexts, youtube_search_contexts,
    doc_contexts, seen_documents, current_total_length,
    answer_messages,          \* the prompt handed to the completion
    chunks,                   \* chunks the streamed completion has delivered
    out,                      \* fragments yielded so far
    calls,                    \* collaborator calls made so far
    doc_log,                  \* what the budgeter decided for each document
    peer,                     \* the locals of the other, suspended invocation
    running,                  \* which invocation the event loop is running
    hooks,                    \* the plugins that have a cleanup attribute
    cleanup_pc,               \* where cleanup() is suspended
    cleaned,                  \* cleanup hooks and close() awaited so far
    closed                    \* the model client has been closed

vars ==
    << req, env, faults, pc, last_user_message, enriched_query, search_queries,
       user_intent, planning, include_web_search, include_ytb_search, all_contexts,
       i, web_search_contexts, youtube_search_contexts, doc_contexts,
       seen_documents, current_total_length, answer_messages, chunks, out, calls,
       doc_log, peer, running, hooks, cleanup_pc, cleaned, closed >>

\* what one invocation of generate_response leaves alone: the other
\* invocation's locals and the state cleanup() works on
instance == << peer, running, hooks, cleanup_pc, cleaned, closed >>

Call(svc, arg, res) == [svc |-> svc, arg |-> arg, res |-> res]
\* a call whose outcome r carries a value: the JSON the collaborator returned
CallData(svc, arg, r) == [svc |-> svc, arg |-> arg, res |-> r.kind, data |-> r.data]

\* whether the environment may still make a call fail
MayFail == faults < env.max_faults

N == Len(search_queries)

\* mutant: the loops walk the plan backwards
QueryAtReversed(k) == search_queries[N - k]
\* for i, query in enumerate(search_queries): the query of iteration i
QueryAt(k) == search_queries[k + 1]


(***************************************************************************)
(* Construction and the pending call.                                      *)
(***************************************************************************)
InitWith(r, e) ==
    /\ req = r
    /\ env = e
    /\ faults = 0
    /\ pc = "start"
    /\ last_user_message = NONE
    /\ enriched_query = NONE
    /\ search_queries = <<>>
    /\ user_intent = UNBOUND
    /\ planning = r.planning
    /\ include_web_search = r.include_web_search
    /\ include_ytb_search = r.include_ytb_search
    /\ all_contexts = <<>>
    /\ i = 0
    /\ web_search_contexts = <<>>
    /\ youtube_search_contexts = <<>>
    /\ doc_contexts = <<>>
    /\ seen_documents = {}
    /\ current_total_length = 0
    /\ answer_messages = UNBOUND
    /\ chunks = 0
    /\ out = <<>>
    /\ calls = <<>>
    /\ doc_log = <<>>

(***************************************************************************)
(* Lines 165-191: the latest user message, or the "input needed" reply.    *)
(***************************************************************************)
RECURSIVE LastUser(_)
\* next((msg["content"] for msg in reversed(messages) if role == "user"),
\*      "No question provided")
LastUser(ms) ==
    IF ms = <<>> THEN NO_QUESTION
    ELSE IF ms[Len(ms)].role = "user" THEN ms[Len(ms)].content
    ELSE LastUser(SubSeq(ms, 1, Len(ms) - 1))

\* line 173: the request is answered with the "input needed" message
NeedsInput(msg) == msg = NO_QUESTION

Start ==
    /\ pc = "start"
    /\ UNCHANGED instance
    /\ last_user_message' = LastUser(req.messages)
    /\ IF NeedsInput(last_user_message')
       THEN /\ out' = Append(out, InputNeeded)
            /\ pc' = "done"
            /\ UNCHANGED << enriched_query, search_queries >>
       ELSE /\ out' = Emit(out, req.stream, Status("analyzing", <<>>))
            /\ enriched_query' = last_user_message'
            /\ search_queries' = <<>>
            /\ pc' = "intent"
    /\ UNCHANGED << req, env, faults, user_intent, planning, include_web_search,
                    include_ytb_search, all_contexts, i, web_search_contexts,
                    youtube_search_contexts, doc_contexts, seen_documents,
                    current_total_length, answer_messages, chunks, calls, doc_log >>

(***************************************************************************)
(* Lines 193-269: intent analysis and search planning, inside one try.     *)
(***************************************************************************)
Intents == { "small_talk", "general_query", "product_query", "risk_query" }

\* the JSON object analyze_intent returns; NONE is a key that is missing
IntentData ==
    { [user_intent |-> T(u), enriched_query |-> T("enriched"),
       search_query |-> T("search")] : u \in env.intents }
MalformedIntentData ==
    [user_intent |-> NONE, enriched_query |-> NONE, search_query |-> NONE]

Outcome(kind, data) == [kind |-> kind, data |-> data]

\* what the analyze_intent call can do
IntentOutcomes ==
    { Outcome("ok", d) : d \in IntentData }
    \cup (IF MayFail
          THEN { Outcome("raise", MalformedIntentData),
                 Outcome("empty", MalformedIntentData),
                 Outcome("bad_json", MalformedIntentData),
                 Outcome("ok", MalformedIntentData) }
          ELSE {})

\* mutant: small talk leaves the caller's flag as it is
SmallTalkGateKeepsFlag(flag, intent) == flag
\* lines 226-228
SmallTalkGate(flag, intent) == IF intent = "small_talk" THEN FALSE ELSE flag

\* dict.get(key, default)
Get(v, default) == IF v = NONE THEN default ELSE v

\* lines 264-269: except Exception of the intent / planning try
IntentExcept(o) == Emit(o, req.stream, Status("intent_failed", <<>>))

Classify ==
    /\ pc = "intent"
    /\ UNCHANGED instance
    /\ \E r \in IntentOutcomes :
         /\ calls' = Append(calls, CallData("analyze_intent", <<last_user_message>>, r))
         /\ faults' = IF r \in { Outcome("ok", d) : d \in IntentData }
                      THEN faults ELSE faults + 1
         /\ IF r.kind = "ok"
            THEN LET intent == Get(r.data.user_intent, T("general_query")).s
                     o1 == Emit(out, req.verbose /\ req.stream,
                                Status("analyze_complete", <<>>))
                     o2 == Emit(o1, intent = "small_talk" /\ req.stream,
                                Status("intent_small_talk", <<>>))
                     plan == SmallTalkGate(planning, intent)
                 IN  /\ user_intent' = Bound(intent)
                     /\ enriched_query' = Get(r.data.enriched_query, last_user_message)
                     /\ search_queries' = << Get(r.data.search_query, last_user_message) >>
                     /\ planning' = plan
                     /\ include_web_search' = SmallTalkGate(include_web_search, intent)
                     /\ include_ytb_search' = SmallTalkGate(include_ytb_search, intent)
                     /\ out' = Emit(o2, plan /\ req.stream, Status("search_planning", <<>>))
                     /\ pc' = IF plan THEN "plan" ELSE "web"
            ELSE \* the call raised, json.loads raised, or nothing was returned
                 \* and line 221 / 224 read a name never assigned
                 /\ search_queries' = << enriched_query >>
                 /\ out' = IntentExcept(out)
                 /\ pc' = "web"
                 /\ UNCHANGED << user_intent, enriched_query, planning,
                                 include_web_search, include_ytb_search >>
    /\ UNCHANGED << req, env, last_user_message, all_contexts, i, web_search_contexts,
                    youtube_search_contexts, doc_contexts, seen_documents,
                    current_total_length, answer_messages, chunks, doc_log >>

\* the search plan of n queries
PlanOf(n) == [k \in 1..n |-> T2("plan", k, 0)]

\* what the generate_search_plan call can do; data is the list under
\* "search_queries", <<NONE>> when the key is missing
PlanOutcomes ==
    { Outcome("ok", PlanOf(n)) : n \in env.plan_lens }
    \cup (IF MayFail
          THEN { Outcome("raise", <<>>), Outcome("empty", <<>>),
                 Outcome("bad_json", <<>>), Outcome("ok", <<NONE>>),
                 Outcome("ok", <<>>) }
          ELSE {})

Plan ==
    /\ pc = "plan"
    /\ UNCHANGED instance
    /\ \E r \in PlanOutcomes :
         /\ calls' = Append(calls, CallData("generate_search_plan", <<enriched_query>>, r))
         /\ faults' = IF r \in { Outcome("ok", PlanOf(n)) : n \in env.plan_lens }
                      THEN faults ELSE faults + 1
         /\ CASE r.kind = "ok" ->
                   /\ search_queries' = IF r.data = <<NONE>> THEN << enriched_query >>
                                        ELSE r.data
                   /\ out' = Emit(out, req.verbose /\ req.stream, Status("plan_done", <<>>))
              [] r.kind = "empty" ->
                   \* line 257, then line 260 reads plan_data, never assigned
                   /\ search_queries' = << enriched_query >>
                   /\ out' = IF req.verbose /\ req.stream THEN IntentExcept(out) ELSE out
              [] OTHER ->
                   /\ search_queries' = << enriched_query >>
                   /\ out' = IntentExcept(out)
    /\ pc' = "web"
    /\ UNCHANGED << req, env, last_user_message, enriched_query, user_intent, planning,
                    include_web_search, include_ytb_search, all_contexts, i,
                    web_search_contexts, youtube_search_contexts, doc_contexts,
                    seen_documents, current_total_length, answer_messages, chunks,
                    doc_log >>


(***************************************************************************)
(* Retrieval.  A retrieval call returns a value, returns nothing, or       *)
(* raises; the value a source returns for a query is Result(source, q).    *)
(***************************************************************************)
\* (q is the sequence of queries the call was given)
Result(source, q) == [source |-> source, q |-> q]
Block(label, body) == [label |-> label, body |-> body]

RetrievalOutcomes == { "ok" } \cup (IF MayFail THEN { "empty", "raise" } ELSE {})
Fault(kind) == IF kind = "ok" THEN 0 ELSE 1

(***************************************************************************)
(* Lines 276-356: web search, inside one try.                              *)
(***************************************************************************)
\* lines 353-356
WebExcept(o) == Emit(o, req.stream, Status("web_error", <<>>))

\* mutant: the verbose step comes before the block is appended, and
\* replaces it
WebBlockUnlessVerbose(ctxs) ==
    IF ctxs # <<>> /\ ~(req.verbose /\ req.stream)
    THEN << Block("Web Search", ctxs) >> ELSE <<>>
\* lines 345-351 after the crawl loop: the block, then the verbose step,
\* which reads combined_web_context (assigned only on line 346)
WebBlock(ctxs) == IF ctxs # <<>> THEN << Block("Web Search", ctxs) >> ELSE <<>>
WebDone(o, ctxs) ==
    IF req.verbose /\ req.stream
    THEN IF ctxs # <<>> THEN Append(o, Status("search_done", <<>>)) ELSE WebExcept(o)
    ELSE o

Crawling == req.search_engine \in { "BING_SEARCH_CRAWLING", "BING_GROUNDING_CRAWLING" }

Web ==
    /\ pc = "web"
    /\ UNCHANGED instance
    /\ IF ~(include_web_search /\ search_queries # <<>>)
       THEN /\ pc' = "video"
            /\ UNCHANGED << faults, all_contexts, i, web_search_contexts, out, calls >>
       ELSE IF req.search_engine = "BING_GROUNDING"
       THEN \E r \in RetrievalOutcomes :
              LET o1 == Emit(out, req.stream, Status("searching", search_queries))
              IN  /\ calls' = Append(calls,
                                     Call("grounding_search_multi_query", search_queries, r))
                  /\ faults' = faults + Fault(r)
                  /\ all_contexts' =
                        IF r = "ok"
                        THEN Append(all_contexts,
                                    Block("Grounding Search",
                                          << Result("grounding", search_queries) >>))
                        ELSE all_contexts
                  \* line 350 reads combined_web_context, never assigned here
                  /\ out' = IF r = "raise" \/ (req.verbose /\ req.stream)
                            THEN WebExcept(o1) ELSE o1
                  /\ pc' = "video"
                  /\ UNCHANGED << i, web_search_contexts >>
       ELSE \E r \in RetrievalOutcomes :
              LET query == QueryAt(i)
                  o1 == Emit(out, req.stream, Status("searching", << query >>))
                  ctxs == IF r = "ok"
                          THEN Append(web_search_contexts, Result("web", << query >>))
                          ELSE web_search_contexts
              IN  /\ calls' = Append(calls, Call("search_single_query", << query >>, r))
                  /\ faults' = faults + Fault(r)
                  /\ web_search_contexts' = ctxs
                  /\ IF r = "raise"
                     THEN /\ out' = WebExcept(o1)
                          /\ pc' = "video"
                          /\ i' = 0
                          /\ UNCHANGED all_contexts
                     ELSE IF i + 1 = N
                     THEN /\ all_contexts' = all_contexts \o WebBlock(ctxs)
                          /\ out' = WebDone(o1, ctxs)
                          /\ pc' = "video"
                          /\ i' = 0
                     ELSE /\ out' = o1
                          /\ i' = i + 1
                          /\ UNCHANGED << pc, all_contexts >>
    /\ UNCHANGED << req, env, last_user_message, enriched_query, search_queries,
                    user_intent, planning, include_web_search, include_ytb_search,
                    youtube_search_contexts, doc_contexts, seen_documents,
                    current_total_length, answer_messages, chunks, doc_log >>

(***************************************************************************)
(* Lines 359-402: video search, inside one try.                            *)
(***************************************************************************)
\* lines 399-402
VideoExcept(o) == Emit(o, req.stream, Status("youtube_error", <<>>))

\* lines 368-371
VideoBackend == IF req.include_mcp_server THEN "youtube_mcp" ELSE "youtube"

\* line 373: the argument of the video search
VideoArg(query) == enriched_query

\* lines 392-394, inside the loop: a block is appended in every iteration
\* that leaves youtube_search_contexts non-empty
VideoBlock(ctxs) == IF ctxs # <<>> THEN << Block("Youtube Search", ctxs) >> ELSE <<>>

\* lines 396-397: reads combined_youtube_context (assigned only on line 393)
VideoDone(o, ctxs) ==
    IF req.verbose /\ req.stream
    THEN IF ctxs # <<>> THEN Append(o, Status("YouTube_done", <<>>)) ELSE VideoExcept(o)
    ELSE o

Video ==
    /\ pc = "video"
    /\ UNCHANGED instance
    /\ IF ~include_ytb_search
       THEN /\ pc' = "doc"
            /\ UNCHANGED << faults, all_contexts, i, youtube_search_contexts, out, calls >>
       ELSE IF search_queries = <<>>
       THEN /\ out' = VideoDone(out, <<>>)
            /\ pc' = "doc"
            /\ UNCHANGED << faults, all_contexts, i, youtube_search_contexts, calls >>
       ELSE \E r \in RetrievalOutcomes :
              LET query == QueryAt(i)
                  o1 == Emit(out, req.stream, Status("searching_YouTube", << query >>))
                  ctxs == IF r = "ok"
                          THEN Append(youtube_search_contexts,
                                      Result(VideoBackend, << VideoArg(query) >>))
                          ELSE youtube_search_contexts
              IN  /\ calls' = Append(calls, Call(VideoBackend, << VideoArg(query) >>, r))
                  /\ faults' = faults + Fault(r)
                  /\ youtube_search_contexts' = ctxs
                  /\ IF r = "raise"
                     THEN /\ out' = VideoExcept(o1)
                          /\ pc' = "doc"
                          /\ i' = 0
                          /\ UNCHANGED all_contexts
                     ELSE /\ all_contexts' = all_contexts \o VideoBlock(ctxs)
                          /\ IF i + 1 = N
                             THEN /\ out' = VideoDone(o1, ctxs)
                                  /\ pc' = "doc"
                                  /\ i' = 0
                             ELSE /\ out' = o1
                                  /\ i' = i + 1
                                  /\ UNCHANGED pc
    /\ UNCHANGED << req, env, last_user_message, enriched_query, search_queries,
                    user_intent, planning, include_web_search, include_ytb_search,
                    web_search_contexts, doc_contexts, seen_documents,
                    current_total_length, answer_messages, chunks, doc_log >>


(***************************************************************************)
(* Lines 405-508: indexed-document search with the context budgeter.       *)
(*                                                                         *)
(* A string of a document is [src, take, marker]: the first `take`         *)
(* characters of the string named src, followed by "... [truncated]" when  *)
(* marker holds.                                                           *)
(***************************************************************************)
Str(src, n) == [src |-> src, take |-> n, marker |-> FALSE]
NoStr == Str("<None>", 0)
\* len(s)
StrLen(t) == t.take + (IF t.marker THEN TRUNCATED_MARKER_LEN ELSE 0)
\* s[:n]
Prefix(t, n) == [t EXCEPT !.take = IF t.take < n THEN t.take ELSE n]
\* s + "... [truncated]"
Marked(t) == [t EXCEPT !.marker = TRUE]

Doc(id, title, url, content, summary) ==
    [id |-> id, title |-> title, url |-> url, content |-> content, summary |-> summary]

\* line 442: doc.get('id') or doc.get('title') or doc.get('url', f"doc_{i}_{doc_idx}")
\* (q is the 0-based query index, doc_idx the 1-based document index)
DocId(doc, q, doc_idx) ==
    IF Truthy(doc.id) THEN doc.id
    ELSE IF Truthy(doc.title) THEN doc.title
    ELSE IF doc.url # NONE THEN doc.url
    ELSE T2("doc", q, doc_idx)

\* lines 458-462: the content, cut to the per-document cap
TruncateContent(c) ==
    IF StrLen(c) > MAX_DOCUMENT_LENGTH
    THEN Marked(Prefix(c, MAX_DOCUMENT_LENGTH))
    ELSE c

\* line 465: the summary, cut to the per-document cap
TruncateSummary(c) == Prefix(c, MAX_DOCUMENT_LENGTH)

\* lines 451-469: the text of the document, NoStr when it has none
ContentToAdd(doc) ==
    IF StrLen(doc.content) > 0 THEN TruncateContent(doc.content)
    ELSE IF StrLen(doc.summary) > 0 THEN TruncateSummary(doc.summary)
    ELSE NoStr

\* mutant: the ceiling is never checked
FitsAlways(total, text) == TRUE
\* line 472: the text fits under the global ceiling
Fits(total, text) == total + StrLen(text) <= MAX_CONTEXT_LENGTH

\* mutant: the dedup set is never consulted
IsDuplicateNever(id, seen) == FALSE
\* line 444: the document is skipped as a duplicate
IsDuplicate(id, seen) == id \in seen

Logged(q, doc_idx, id, doc, decision, text) ==
    [q |-> q, doc_idx |-> doc_idx, id |-> id, doc |-> doc, decision |-> decision,
     text |-> text]

\* lines 440-478 for one document; b is the budgeter's state
\* [ctxs, seen, total, log, stop], stop being the `break` of line 478
BudgetDoc(b, doc, q, doc_idx) ==
    LET id == DocId(doc, q, doc_idx)
        text == ContentToAdd(doc)
        seen1 == b.seen \cup { id }
    IN  IF b.stop THEN b
        ELSE IF IsDuplicate(id, b.seen)
        THEN [b EXCEPT !.log = Append(@, Logged(q, doc_idx, id, doc, "duplicate", NoStr))]
        ELSE IF text = NoStr
        THEN [b EXCEPT !.seen = seen1,
                       !.log = Append(@, Logged(q, doc_idx, id, doc, "no_content", NoStr))]
        ELSE IF Fits(b.total, text)
        THEN [b EXCEPT !.seen = seen1,
                       !.ctxs = Append(@, text),
                       !.total = @ + StrLen(text),
                       !.log = Append(@, Logged(q, doc_idx, id, doc, "admitted", text))]
        ELSE [b EXCEPT !.seen = seen1,
                       !.stop = TRUE,
                       !.log = Append(@, Logged(q, doc_idx, id, doc, "rejected", text))]

RECURSIVE BudgetDocs(_, _, _, _)
\* for doc_idx, doc in enumerate(documents[:2], 1), from document k on
BudgetDocs(b, documents, q, k) ==
    IF k > Len(documents) \/ k > DOCS_PER_QUERY THEN b
    ELSE BudgetDocs(BudgetDoc(b, documents[k], q, k), documents, q, k + 1)

\* line 487: the outer loop stops
CeilingReached(total) == total >= MAX_CONTEXT_LENGTH

\* lines 505-508
DocExcept(o) == Emit(o, req.stream, Status("doc_error", <<>>))

\* lines 495-498
DocBlock(ctxs) == IF ctxs # <<>> THEN << Block("Document Context", ctxs) >> ELSE <<>>

\* lines 500-503
DocDone(o, ctxs) ==
    Emit(o, req.verbose /\ req.stream /\ ctxs # <<>>, Status("ai_search_context_done", <<>>))


(***************************************************************************)
(* The document stores of the environments.                                *)
(***************************************************************************)
\* plain: every query finds one short document of its own
PlainDocs(q) == { << Doc(T2("plain", q, 0), NONE, NONE, Str("plain", 500), NoStr) >> }

\* rich: documents that share identities, lack fields, or are long
DocPool ==
    { Doc(T("A"), T("title-A"), NONE, Str("A", 12000), Str("A-summary", 80)),
      Doc(NONE, T("A"), NONE, Str("A2", 300), NoStr),
      Doc(T("S"), NONE, NONE, NoStr, Str("S-summary", 12000)),
      Doc(T("N"), NONE, NONE, NoStr, NoStr),
      Doc(T("N"), NONE, NONE, Str("N2", 10000), NoStr),
      Doc(NONE, EMPTY, NONE, Str("anon", 100), NoStr),
      Doc(NONE, NONE, EMPTY, Str("no-url", 50), NoStr) }

RichDocs(q) ==
    { << d >> : d \in DocPool }
    \cup { << d1, d2 >> : d1 \in DocPool, d2 \in DocPool }
    \cup { << d, d, Doc(T("third"), NONE, NONE, Str("third", 10), NoStr) >> : d \in DocPool }

\* bulk: every query finds two documents of its own, of env.big_take
\* characters each; a failing store finds one short document instead
BigDoc(q, k) == Doc(T2("big", q, k), NONE, NONE, Str("big", env.big_take), NoStr)
BulkDocs(q) == { << BigDoc(q, 1), BigDoc(q, 2) >> }
SmallDocs(q) == { << Doc(T2("small", q, 1), NONE, NONE, Str("small", 5000), NoStr) >> }

\* shared: whoever searches, and for whichever query, the store finds the
\* same documents
SharedDocs(q) ==
    { << Doc(T("A"), NONE, NONE, Str("A", 300), NoStr) >>,
      << Doc(T("A"), NONE, NONE, Str("A", 300), NoStr),
         Doc(T("B"), NONE, NONE, Str("B", 200), NoStr) >> }

\* the lists of documents a successful search can return for query q
Documents(q) ==
    CASE env.docs = "plain" -> PlainDocs(q)
      [] env.docs = "shared" -> SharedDocs(q)
      [] env.docs = "rich" -> RichDocs(q)
      [] env.docs = "bulk" -> BulkDocs(q)

\* what the search_documents call can do for query q: the JSON object
\* {status, documents}, nothing, or an exception
DocOutcomes(q) ==
    { Outcome("ok", d) : d \in Documents(q) }
    \cup (IF MayFail
          THEN { Outcome("raise", <<>>), Outcome("empty", <<>>),
                 Outcome("error_status", <<>>), Outcome("ok", <<>>) }
               \cup (IF env.docs = "bulk"
                     THEN { Outcome("ok", d) : d \in SmallDocs(q) } ELSE {})
          ELSE {})

Budget == [ctxs |-> doc_contexts, seen |-> seen_documents,
           total |-> current_total_length, log |-> doc_log, stop |-> FALSE]

Docs ==
    /\ pc = "doc"
    /\ UNCHANGED instance
    /\ IF ~req.include_ai_search \/ search_queries = <<>>
       THEN /\ pc' = "answer"
            /\ UNCHANGED << faults, all_contexts, i, doc_contexts, seen_documents,
                            current_total_length, out, calls, doc_log >>
       ELSE \E r \in DocOutcomes(i) :
              LET query == QueryAt(i)
                  o1 == Emit(out, req.stream, Status("ai_search_context", << query >>))
                  \* line 435: status == 'success' and documents
                  b == IF r.kind = "ok" THEN BudgetDocs(Budget, r.data, i, 1) ELSE Budget
              IN  /\ calls' = Append(calls, CallData("search_documents", << query >>, r))
                  /\ faults' = IF r \in { Outcome("ok", d) : d \in Documents(i) }
                               THEN faults ELSE faults + 1
                  /\ doc_contexts' = b.ctxs
                  /\ seen_documents' = b.seen
                  /\ current_total_length' = b.total
                  /\ doc_log' = b.log
                  /\ IF r.kind = "raise"
                     THEN /\ out' = DocExcept(o1)
                          /\ pc' = "answer"
                          /\ i' = 0
                          /\ UNCHANGED all_contexts
                     ELSE IF CeilingReached(b.total) \/ i + 1 = N
                     THEN /\ all_contexts' = all_contexts \o DocBlock(b.ctxs)
                          /\ out' = DocDone(o1, b.ctxs)
                          /\ pc' = "answer"
                          /\ i' = 0
                     ELSE /\ out' = o1
                          /\ i' = i + 1
                          /\ UNCHANGED << pc, all_contexts >>
    /\ UNCHANGED << req, env, last_user_message, enriched_query, search_queries,
                    user_intent, planning, include_web_search, include_ytb_search,
                    web_search_contexts, youtube_search_contexts, answer_messages,
                    chunks >>


(***************************************************************************)
(* Lines 510-582: prompt assembly and generation; the outer except.        *)
(***************************************************************************)
\* line 514: the sentinel that stands for an empty context list
NoContext == Block("No relevant context found.", <<>>)
Contexts(ctxs) == IF ctxs = <<>> THEN << NoContext >> ELSE ctxs

\* lines 523-552: the answer template for the intent
Template(intent) ==
    IF intent = "general_query" THEN "GENERAL_ANSWER_PROMPT"
    ELSE IF intent = "product_query" THEN "PRODUCT_ANSWER_PROMPT"
    ELSE "GENERAL_ANSWER_PROMPT"

\* mutant: the outer except swallows the exception without a fragment
OuterExceptSilent(o, e) == o
\* lines 579-582: except Exception of the whole generator
OuterExcept(o, e) == Append(o, ErrorFrag(e))

\* mutant: the elapsed-time fragment follows the answer directly
AfterAnswerNoNewline(o) == IF req.elapsed_time THEN Append(o, Elapsed) ELSE o
\* mutant: the elapsed-time fragment is yielded whatever elapsed_time is
AfterAnswerAlwaysElapsed(o) ==
    Append(Append(Append(o, Blank("\n")), Blank("\n")), Elapsed)
\* lines 572-577: after the answer
AfterAnswer(o) ==
    LET o1 == Append(o, Blank("\n"))
    IN  IF req.elapsed_time THEN Append(Append(o1, Blank("\n")), Elapsed) ELSE o1

GenerationOutcomes == { "ok" } \cup (IF MayFail THEN { "raise" } ELSE {})

Generate ==
    /\ pc = "answer"
    /\ UNCHANGED instance
    /\ LET o1 == Emit(out, req.stream, Status("answering", <<>>))
           o2 == Append(o1, Blank(" \n"))
           ctxs == Contexts(all_contexts)
       IN  /\ all_contexts' = ctxs
           /\ IF ~IsBound(user_intent)
              THEN \* line 523 reads user_intent, never assigned
                   /\ out' = OuterExcept(o2, "UnboundLocalError")
                   /\ pc' = "done"
                   /\ UNCHANGED << faults, answer_messages, calls >>
              ELSE \E r \in GenerationOutcomes :
                     /\ answer_messages' =
                           Bound([template |-> Template(Val(user_intent)),
                                  contexts |-> ctxs, question |-> enriched_query])
                     /\ calls' = Append(calls,
                                        Call("chat.completions.create", << enriched_query >>, r))
                     /\ faults' = faults + Fault(r)
                     /\ IF r = "raise"
                        THEN /\ out' = OuterExcept(o2, "completion failed")
                             /\ pc' = "done"
                        ELSE IF req.stream
                        THEN /\ out' = o2
                             /\ pc' = "stream"
                        ELSE /\ out' = AfterAnswer(Append(o2, Answer(<<>>)))
                             /\ pc' = "done"
    /\ UNCHANGED << req, env, last_user_message, enriched_query, search_queries,
                    user_intent, planning, include_web_search, include_ytb_search, i,
                    web_search_contexts, youtube_search_contexts, doc_contexts,
                    seen_documents, current_total_length, chunks, doc_log >>

\* what the stream of the completion can do next: deliver a chunk with
\* content, end, or raise
StreamOutcomes ==
    (IF chunks < MaxChunks THEN { "chunk" } ELSE {})
    \cup (IF chunks > 0 \/ MayFail THEN { "end" } ELSE {})
    \cup (IF MayFail THEN { "raise" } ELSE {})

Stream ==
    /\ pc = "stream"
    /\ UNCHANGED instance
    /\ \E r \in StreamOutcomes :
         /\ faults' = IF r = "raise" \/ (r = "end" /\ chunks = 0)
                      THEN faults + 1 ELSE faults
         /\ calls' = Append(calls, Call("stream.__anext__", <<>>, r))
         /\ CASE r = "chunk" ->
                   /\ out' = Append(out, Answer(<<>>))
                   /\ chunks' = chunks + 1
                   /\ UNCHANGED pc
              [] r = "end" ->
                   /\ out' = AfterAnswer(out)
                   /\ pc' = "done"
                   /\ UNCHANGED chunks
              [] r = "raise" ->
                   /\ out' = OuterExcept(out, "stream failed")
                   /\ pc' = "done"
                   /\ UNCHANGED chunks
    /\ UNCHANGED << req, env, last_user_message, enriched_query, search_queries,
                    user_intent, planning, include_web_search, include_ytb_search,
                    all_contexts, i, web_search_contexts, youtube_search_contexts,
                    doc_contexts, seen_documents, current_total_length,
                    answer_messages, doc_log >>

Next == Start \/ Classify \/ Plan \/ Web \/ Video \/ Docs \/ Generate \/ Stream

(***************************************************************************)
(* Specifications: the same generator in three environments.               *)
(***************************************************************************)
\* ordinary documents, any arguments, collaborators that may fail
PlainEnv == [docs |-> "plain", intents |-> Intents, plan_lens |-> 1..MaxPlan,
             max_faults |-> MaxFaults, big_take |-> 0]
\* one invocation, no other one suspended, cleanup() not called
NoPeer == <<>>
Alone ==
    /\ peer = NoPeer
    /\ running = 1
    /\ hooks = {}
    /\ cleanup_pc = "idle"
    /\ cleaned = <<>>
    /\ closed = FALSE
Init == (\E r \in Requests : InitWith(r, PlainEnv)) /\ Alone
Spec == Init /\ [][Next]_vars

\* the rich document store, searched by a general query; no call fails
RichEnv == [docs |-> "rich", intents |-> { "general_query" }, plan_lens |-> 1..MaxPlan,
            max_faults |-> 0, big_take |-> 0]
DocRequests ==
    { r \in Requests : /\ r.messages = Conversation
                        /\ Overrides(r) \subseteq { "stream" } }
InitDoc == (\E r \in DocRequests : InitWith(r, RichEnv)) /\ Alone
SpecDoc == InitDoc /\ [][Next]_vars

\* the bulk document store: enough big documents to reach the ceiling;
\* only the document stage searches, streamed or not
BulkEnvs ==
    { [docs |-> "bulk", intents |-> { "general_query" }, plan_lens |-> { BulkPlan },
       max_faults |-> BulkFaults, big_take |-> n] : n \in { 10000, 12000 } }
BulkRequests ==
    { r \in AllRequests : /\ r.messages = Conversation
                           /\ Overrides(r) \subseteq { "stream", "include_web_search",
                                                        "include_ytb_search" }
                           /\ ~r.include_web_search
                           /\ ~r.include_ytb_search }
InitBulk == (\E r \in BulkRequests, e \in BulkEnvs : InitWith(r, e)) /\ Alone
SpecBulk == InitBulk /\ [][Next]_vars

(***************************************************************************)
(* Two invocations on one instance.  Every name generate_response assigns  *)
(* is a local of the invocation (lines 159-577 assign no attribute of      *)
(* self), so the event loop, when it suspends one invocation at an await   *)
(* or a yield and resumes the other, exchanges all of them.                *)
(***************************************************************************)
\* the locals of the running invocation
Locals ==
    [ req |-> req, faults |-> faults, pc |-> pc,
      last_user_message |-> last_user_message, enriched_query |-> enriched_query,
      search_queries |-> search_queries, user_intent |-> user_intent,
      planning |-> planning, include_web_search |-> include_web_search,
      include_ytb_search |-> include_ytb_search, all_contexts |-> all_contexts,
      i |-> i, web_search_contexts |-> web_search_contexts,
      youtube_search_contexts |-> youtube_search_contexts,
      doc_contexts |-> doc_contexts, seen_documents |-> seen_documents,
      current_total_length |-> current_total_length,
      answer_messages |-> answer_messages, chunks |-> chunks, out |-> out,
      calls |-> calls, doc_log |-> doc_log ]

\* the locals of an invocation that has not started (see InitWith)
InitialLocals(r) ==
    [ req |-> r, faults |-> 0, pc |-> "start",
      last_user_message |-> NONE, enriched_query |-> NONE,
      search_queries |-> <<>>, user_intent |-> UNBOUND,
      planning |-> r.planning, include_web_search |-> r.include_web_search,
      include_ytb_search |-> r.include_ytb_search, all_contexts |-> <<>>,
      i |-> 0, web_search_contexts |-> <<>>,
      youtube_search_contexts |-> <<>>,
      doc_contexts |-> <<>>, seen_documents |-> {},
      current_total_length |-> 0,
      answer_messages |-> UNBOUND, chunks |-> 0, out |-> <<>>,
      calls |-> <<>>, doc_log |-> <<>> ]

\* mutant: the dedup set is an attribute of the instance, not a local
ResumedSharingSeen(frame) == [frame EXCEPT !.seen_documents = seen_documents]
\* what a resumed invocation finds in its locals: what it left there
Resumed(frame) == frame

\* the running invocation is suspended and the other one resumed
Switch ==
    /\ peer.pc # "done"
    /\ peer' = Locals
    /\ running' = 3 - running
    /\ LET f == Resumed(peer)
       IN  /\ req' = f.req
           /\ faults' = f.faults
           /\ pc' = f.pc
           /\ last_user_message' = f.last_user_message
           /\ enriched_query' = f.enriched_query
           /\ search_queries' = f.search_queries
           /\ user_intent' = f.user_intent
           /\ planning' = f.planning
           /\ include_web_search' = f.include_web_search
           /\ include_ytb_search' = f.include_ytb_search
           /\ all_contexts' = f.all_contexts
           /\ i' = f.i
           /\ web_search_contexts' = f.web_search_contexts
           /\ youtube_search_contexts' = f.youtube_search_contexts
           /\ doc_contexts' = f.doc_contexts
           /\ seen_documents' = f.seen_documents
           /\ current_total_length' = f.current_total_length
           /\ answer_messages' = f.answer_messages
           /\ chunks' = f.chunks
           /\ out' = f.out
           /\ calls' = f.calls
           /\ doc_log' = f.doc_log
    /\ UNCHANGED << env, hooks, cleanup_pc, cleaned, closed >>

NextTwo == Next \/ Switch

\* the shared document store, searched by two invocations whose web and
\* video stages are off; one of them may stream, the classifier may answer
\* small talk
SharedEnv == [docs |-> "shared", intents |-> { "general_query", "small_talk" },
              plan_lens |-> 1..MaxPlan, max_faults |-> 0, big_take |-> 0]
TwoRequests ==
    { r \in AllRequests : /\ r.messages = Conversation
                           /\ Overrides(r) \subseteq { "stream", "include_web_search",
                                                        "include_ytb_search" }
                           /\ ~r.include_web_search
                           /\ ~r.include_ytb_search }
InitTwo ==
    /\ \E r \in TwoRequests : InitWith(r, SharedEnv)
    /\ \E r \in TwoRequests : peer = InitialLocals(r)
    /\ running = 1
    /\ hooks = {}
    /\ cleanup_pc = "idle"
    /\ cleaned = <<>>
    /\ closed = FALSE
SpecTwo == InitTwo /\ [][NextTwo]_vars

(***************************************************************************)
(* Lines 584-609: cleanup().  The plugins are built by __init__ (lines     *)
(* 77-87); whether a plugin class has a cleanup attribute, and whether     *)
(* awaiting it raises, is for the environment to say.  One try encloses    *)
(* the whole body.                                                         *)
(***************************************************************************)
\* the plugins the instance holds (lines 77-87)
Plugins ==
    { "search_plugin", "youtube_plugin", "youtube_mcp_plugin", "corp_plugin",
      "intent_plan_plugin", "grounding_plugin", "ai_search_plugin",
      "unified_file_upload_plugin" }

\* the statements of cleanup() in order: the four hasattr checks, the
\* client's close, the sleep
CleanupSteps ==
    << "youtube_plugin", "youtube_mcp_plugin", "intent_plan_plugin",
       "grounding_plugin", "client", "sleep", "returned" >>
Inspected == { CleanupSteps[k] : k \in 1..4 }
AfterStep(step) ==
    CleanupSteps[(CHOOSE k \in DOMAIN CleanupSteps : CleanupSteps[k] = step) + 1]

\* what an awaited cleanup hook or close() can do
HookOutcomes == { "ok", "raise" }

\* lines 608-609: except Exception logs, and cleanup() returns
CleanupExcept == "returned"

\* what the invocations of generate_response hold; cleanup() assigns none
frames ==
    << req, env, faults, pc, last_user_message, enriched_query, search_queries,
       user_intent, planning, include_web_search, include_ytb_search, all_contexts,
       i, web_search_contexts, youtube_search_contexts, doc_contexts,
       seen_documents, current_total_length, answer_messages, chunks, out, calls,
       doc_log, peer, running >>

\* lines 588-599: if hasattr(plugin, 'cleanup'): await plugin.cleanup()
CleanupHook ==
    /\ cleanup_pc \in Inspected
    /\ IF cleanup_pc \in hooks
       THEN \E r \in HookOutcomes :
              /\ cleaned' = Append(cleaned, Call(cleanup_pc, <<>>, r))
              /\ cleanup_pc' = IF r = "raise" THEN CleanupExcept ELSE AfterStep(cleanup_pc)
       ELSE /\ cleanup_pc' = AfterStep(cleanup_pc)
            /\ UNCHANGED cleaned
    /\ UNCHANGED << hooks, closed >>
    /\ UNCHANGED frames

\* lines 602-603: the client of the openai package has a close method
CleanupClose ==
    /\ cleanup_pc = "client"
    /\ \E r \in HookOutcomes :
         /\ cleaned' = Append(cleaned, Call("client", <<>>, r))
         /\ closed' = (r = "ok")
         /\ cleanup_pc' = IF r = "raise" THEN CleanupExcept ELSE AfterStep(cleanup_pc)
    /\ UNCHANGED hooks
    /\ UNCHANGED frames

\* line 606: await asyncio.sleep(0.1)
CleanupSleep ==
    /\ cleanup_pc = "sleep"
    /\ cleanup_pc' = AfterStep(cleanup_pc)
    /\ UNCHANGED << hooks, cleaned, closed >>
    /\ UNCHANGED frames

NextCleanup == CleanupHook \/ CleanupClose \/ CleanupSleep

\* cleanup() called on an instance whose plugins have any set of hooks
InitCleanup ==
    /\ InitWith(DefaultRequest(Conversation), PlainEnv)
    /\ peer = NoPeer
    /\ running = 1
    /\ hooks \in SUBSET Plugins
    /\ cleanup_pc = CleanupSteps[1]
    /\ cleaned = <<>>
    /\ closed = FALSE
SpecCleanup == InitCleanup /\ [][NextCleanup]_vars

(***************************************************************************)
(* One request run twice, the second time with verbose the other way and   *)
(* with every collaborator answering what it answered the first time.      *)
(***************************************************************************)
\* the collaborators whose answer carries a value
DataServices == { "analyze_intent", "generate_search_plan", "search_documents" }
SameResponse(c, d) == c.res = d.res /\ (c.svc \in DataServices => c.data = d.data)

\* the running invocation has been answered, call by call, what the
\* suspended one was answered
Replayed ==
    \A k \in DOMAIN calls :
        (k <= Len(peer.calls) /\ calls[k].svc = peer.calls[k].svc) =>
            SameResponse(calls[k], peer.calls[k])

FirstRun == running = 1 /\ Next
\* the first run has ended; the second one starts
Handover == running = 1 /\ pc = "done" /\ Switch
SecondRun == running = 2 /\ Next /\ Replayed'

NextVerbose == FirstRun \/ Handover \/ SecondRun

\* the collaborators of Spec, with at most TwinFaults empty or failed answers
TwinEnv == [PlainEnv EXCEPT !.max_faults = TwinFaults]
VerboseRequests ==
    { r \in AllRequests : /\ r.messages = Conversation
                           /\ Overrides(r) \subseteq { "stream", "search_engine", "verbose" } }
InitVerbose ==
    /\ \E r \in VerboseRequests :
         /\ InitWith(r, TwinEnv)
         /\ peer = InitialLocals([r EXCEPT !.verbose = ~r.verbose])
    /\ running = 1
    /\ hooks = {}
    /\ cleanup_pc = "idle"
    /\ cleaned = <<>>
    /\ closed = FALSE
SpecVerbose == InitVerbose /\ [][NextVerbose]_vars


(***************************************************************************)
(* Reading the state.                                                      *)
(***************************************************************************)
Done == pc = "done"
CallsTo(svcs) == { k \in DOMAIN calls : calls[k].svc \in svcs }
Called(svcs) == CallsTo(svcs) # {}
RaisedIn(svcs) == { k \in CallsTo(svcs) : calls[k].res = "raise" }
Classifier == { "analyze_intent" }
Planner == { "generate_search_plan" }
WebSearch == { "search_single_query", "grounding_search_multi_query" }
VideoSearch == { "youtube", "youtube_mcp" }
DocSearch == { "search_documents" }
Generation == { "chat.completions.create" }
StreamRead == { "stream.__anext__" }
FragsOf(kind) == { k \in DOMAIN out : out[k].kind = kind }
Kinds == [k \in DOMAIN out |-> out[k].kind]
Rep(kind, n) == [k \in 1..n |-> kind]

\* the classifier call failed: it raised or its output could not be parsed
ClassifierFailed ==
    \E k \in CallsTo(Classifier) : calls[k].res \in { "raise", "bad_json" }

\* the classifier answered small_talk
SmallTalk == IsBound(user_intent) /\ Val(user_intent) = "small_talk"

\* the completion call was made, and with this question
GenerationCalledWith(question) ==
    /\ Called(Generation)
    /\ IsBound(answer_messages)
    /\ Val(answer_messages).question = question

\* the completion failed, when it was created or while its stream was read
GenerationFailed == RaisedIn(Generation \cup StreamRead) # {}

\* the run called the completion and ended without a failure of it
Successful == Done /\ Called(Generation) /\ ~GenerationFailed

\* the request carries a non-empty user message and has passed retrieval
PastRetrieval ==
    pc \in { "stream", "done" } /\ Truthy(last_user_message) /\ Called(Generation)

\* the texts of the context handed to the completion
ContextBodies ==
    IF IsBound(answer_messages)
    THEN { Val(answer_messages).contexts[k].body : k \in DOMAIN Val(answer_messages).contexts }
    ELSE {}
InContext(x) == \E body \in ContextBodies : \E k \in DOMAIN body : body[k] = x

\* a stage in which exactly one call raised searched every query of the
\* plan and has every result it was given in the context
StageKeepsOtherQueries(svcs, results) ==
    Cardinality(RaisedIn(svcs)) = 1 =>
        /\ Cardinality(CallsTo(svcs)) = N
        /\ \A k \in DOMAIN results : InContext(results[k])

NoUserMessage(ms) == \A k \in DOMAIN ms : ms[k].role # "user"
EmptyOrMissing(ms) == NoUserMessage(ms) \/ LastUser(ms) = EMPTY

RECURSIVE SumLen(_)
SumLen(texts) ==
    IF texts = <<>> THEN 0 ELSE StrLen(Head(texts)) + SumLen(Tail(texts))
\* the documents the budgeter admitted, and their texts in order
Admitted == { k \in DOMAIN doc_log : doc_log[k].decision = "admitted" }
RECURSIVE AdmittedUpTo(_)
AdmittedUpTo(k) ==
    IF k = 0 THEN <<>>
    ELSE IF doc_log[k].decision = "admitted"
    THEN Append(AdmittedUpTo(k - 1), doc_log[k].text)
    ELSE AdmittedUpTo(k - 1)
\* the text the budgeter extracts: the content, or the summary without it
Extracted(doc) == IF StrLen(doc.content) > 0 THEN doc.content ELSE doc.summary

ElapsedTails == { <<>>, << Blank("\n"), Elapsed >> }
Answers(n) == [k \in 1..n |-> Answer(<<>>)]
ReportsError(f) == f.kind = "error" \/ (f.kind = "status" /\ f.label \in ErrorLabels)

(***************************************************************************)
(* C1.  A request whose intent-classifier call raises, or returns output   *)
(* that cannot be parsed, still reaches the final generation call, with    *)
(* the raw last user message as enriched_query.                            *)
(* The code does not do this: user_intent is never assigned, and line 523  *)
(* raises before the completion is called.                                 *)
(***************************************************************************)
C1_ClassifierFailureStillGenerates ==
    (Done /\ Truthy(last_user_message) /\ ClassifierFailed) =>
        GenerationCalledWith(last_user_message)

(***************************************************************************)
(* C2.  In each retrieval stage (web crawling, video, document), when the  *)
(* retrieval call raises for exactly one query of the plan, every other    *)
(* query of the plan is still searched and every result returned in that   *)
(* stage is in the context passed to generation.                           *)
(* The code does not do this: each stage's try encloses its whole loop.    *)
(***************************************************************************)
C2_OneFailingQueryKeepsTheOthers ==
    PastRetrieval =>
        /\ StageKeepsOtherQueries({ "search_single_query" }, web_search_contexts)
        /\ StageKeepsOtherQueries(VideoSearch, youtube_search_contexts)
        /\ StageKeepsOtherQueries(DocSearch, doc_contexts)

(***************************************************************************)
(* C3.  In the document stage, once a document has been rejected because   *)
(* the running aggregate length plus its length would exceed the global    *)
(* ceiling, no later document of the request is admitted, neither of the   *)
(* same query nor of a later one.                                          *)
(* The code does not do this: the rejection leaves only the inner loop,    *)
(* and line 487 stops the outer one only at a total of at least 400,000.   *)
(***************************************************************************)
C3_NoAdmissionAfterCeilingRejection ==
    \A j \in DOMAIN doc_log : \A k \in DOMAIN doc_log :
        (j < k /\ doc_log[j].decision = "rejected") => doc_log[k].decision # "admitted"

(***************************************************************************)
(* C4.  A request with no user message, or whose latest user message is    *)
(* empty, yields exactly the "input needed" message, and no collaborator   *)
(* is called.                                                              *)
(* The code does this only for the missing message: an empty one is        *)
(* analysed, searched and answered like any other.                         *)
(***************************************************************************)
C4_EmptyOrMissingMessageNeedsInput ==
    (pc # "start" /\ EmptyOrMissing(req.messages)) =>
        (out = << InputNeeded >> /\ calls = <<>>)

(***************************************************************************)
(* C5.  Whenever the classifier returns user_intent = small_talk, the      *)
(* search planner, the web search and the video search are never invoked   *)
(* in that request, whatever the caller supplied for planning,             *)
(* include_web_search and include_ytb_search.                              *)
(***************************************************************************)
C5_SmallTalkSearchesNothing ==
    SmallTalk => ~Called(Planner \cup WebSearch \cup VideoSearch)
\* witness: a finished small-talk request whose caller asked for planning,
\* web search and video search, and which went on to generation
C5_Witness ==
    /\ Done
    /\ SmallTalk
    /\ req.planning /\ req.include_web_search /\ req.include_ytb_search
    /\ Called(DocSearch)
    /\ Called(Generation)
    /\ FragsOf("answer") # {}

(***************************************************************************)
(* C6.  Within one request, across all queries of the document stage, a    *)
(* document whose identity equals that of a document seen earlier is       *)
(* excluded from the aggregate and adds nothing to the running length:     *)
(* each identity has at most one admitted text and is counted at most      *)
(* once toward the ceiling.                                                *)
(***************************************************************************)
C6_DuplicateIdentityExcluded ==
    /\ \A j \in DOMAIN doc_log : \A k \in DOMAIN doc_log :
         (j < k /\ doc_log[j].id = doc_log[k].id) => doc_log[k].decision = "duplicate"
    /\ \A j \in Admitted : \A k \in Admitted : doc_log[j].id = doc_log[k].id => j = k
    /\ doc_contexts = AdmittedUpTo(Len(doc_log))
    /\ current_total_length = SumLen(AdmittedUpTo(Len(doc_log)))
\* witness: a later query returned a document with text under the identity
\* of a document admitted for an earlier query; the request finished
C6_Witness ==
    /\ Done
    /\ \E j \in Admitted : \E k \in DOMAIN doc_log :
         /\ doc_log[j].q < doc_log[k].q
         /\ doc_log[j].id = doc_log[k].id
         /\ doc_log[j].doc # doc_log[k].doc
         /\ ContentToAdd(doc_log[k].doc) # NoStr
    /\ Cardinality(Admitted) = 2

(***************************************************************************)
(* C7.  For every admitted document whose extracted text (the content      *)
(* field, or the summary when content is absent) is longer than the        *)
(* per-document cap, the admitted text is exactly its first 10,000         *)
(* characters followed by the truncation marker; an extracted text no      *)
(* longer than the cap is admitted unchanged.                              *)
(* The code does this for the content field only: a long summary is cut    *)
(* to 10,000 characters and gets no marker.                                *)
(***************************************************************************)
C7_LongTextCutAndMarked ==
    \A k \in Admitted :
        LET x == Extracted(doc_log[k].doc)
        IN  doc_log[k].text =
               IF StrLen(x) > MAX_DOCUMENT_LENGTH
               THEN Marked(Prefix(x, MAX_DOCUMENT_LENGTH))
               ELSE x

(***************************************************************************)
(* C8, as claimed.  In streaming mode every successful run's output is     *)
(* zero or more status fragments, then one or more answer fragments, then  *)
(* at most one elapsed-time fragment, and nothing else; in non-streaming   *)
(* mode it is exactly one answer fragment, then at most one elapsed-time   *)
(* fragment.                                                               *)
(* The code also yields " \n" before the answer and "\n" after it (and     *)
(* once more before the elapsed-time fragment), in both modes, and a       *)
(* stream without content yields no answer fragment.                       *)
(***************************************************************************)
C8_AsClaimed ==
    Successful =>
        IF req.stream
        THEN \E a \in 0..Len(out) : \E m \in 1..Len(out) : \E e \in 0..1 :
                Kinds = Rep("status", a) \o Rep("answer", m) \o Rep("elapsed", e)
        ELSE \E e \in 0..1 : Kinds = << "answer" >> \o Rep("elapsed", e)

(***************************************************************************)
(* C8, amended.  In streaming mode every successful run's output is zero   *)
(* or more status fragments, the formatting fragment " \n", zero or more   *)
(* answer fragments, the formatting fragment "\n", then at most one        *)
(* elapsed-time fragment, itself preceded by one more "\n"; in             *)
(* non-streaming mode it is " \n", exactly one answer fragment, "\n", then *)
(* at most one elapsed-time fragment preceded by "\n".  No other fragment  *)
(* occurs.                                                                 *)
(***************************************************************************)
C8_OutputShape ==
    Successful =>
        \E a \in 0..Len(out) : \E m \in 0..Len(out) : \E tail \in ElapsedTails :
            /\ a + m + 2 + Len(tail) = Len(out)
            /\ \A k \in 1..a : out[k].kind = "status"
            /\ SubSeq(out, a + 1, Len(out)) =
                  << Blank(" \n") >> \o Answers(m) \o << Blank("\n") >> \o tail
            /\ ~req.stream => (a = 0 /\ m = 1)
\* witness: a streamed run with status fragments, two answer chunks and the
\* elapsed-time fragment
C8_Witness ==
    /\ Successful
    /\ req.stream
    /\ FragsOf("status") # {}
    /\ Cardinality(FragsOf("answer")) = 2
    /\ FragsOf("elapsed") # {}

(***************************************************************************)
(* C9.  When the final generation call fails, at creation or while its     *)
(* stream is consumed, the output contains exactly one "Error: <message>"  *)
(* fragment, that fragment is the last one, and the generator ends         *)
(* normally instead of raising to its caller.                              *)
(***************************************************************************)
C9_GenerationFailureEndsWithOneError ==
    GenerationFailed =>
        /\ Done
        /\ Cardinality(FragsOf("error")) = 1
        /\ out[Len(out)].kind = "error"
\* witness: the stream raised after an answer chunk had been yielded
C9_Witness ==
    /\ Done
    /\ RaisedIn(StreamRead) # {}
    /\ FragsOf("answer") # {}
    /\ out[Len(out)].kind = "error"

(***************************************************************************)
(* C10.  Failures of the classifier, the planner or a retrieval call are   *)
(* never surfaced: the output holds a fragment that reports an error (the  *)
(* terminal "Error: <message>" or an error status fragment) only if the    *)
(* final generation call itself failed.                                    *)
(* The code does not do this: in streaming mode every except block yields  *)
(* a status fragment naming the failure, and a failed classification ends  *)
(* the run with the terminal Error fragment (see C1).                      *)
(***************************************************************************)
C10_OnlyGenerationFailureIsSurfaced ==
    (Truthy(last_user_message) /\ \E k \in DOMAIN out : ReportsError(out[k])) =>
        GenerationFailed

\* the planner call raised, returned text that is not JSON, or returned
\* nothing
PlannerFailed ==
    \E k \in CallsTo(Planner) : calls[k].res \in { "raise", "bad_json", "empty" }

(***************************************************************************)
(* C11.  Whenever planning is disabled, or the planner call fails or       *)
(* returns nothing, the query list used by the retrieval stages is exactly *)
(* the one-element list [enriched_query]; the planner's error does not     *)
(* reach the caller.                                                       *)
(* The code does this when the planner fails or returns nothing.  With     *)
(* planning disabled the list stays what line 209 made it: the             *)
(* classifier's search_query, not its enriched_query.                      *)
(***************************************************************************)
C11_NoPlanMeansEnrichedQuery ==
    (/\ Truthy(last_user_message)
     /\ Called(Classifier)
     /\ pc # "plan"
     /\ ~planning \/ PlannerFailed) =>
        search_queries = << enriched_query >>

\* a retrieval stage ran: it searched every query of the plan, or went as
\* far as its own failure
StageRan(svcs) == Cardinality(CallsTo(svcs)) = N \/ RaisedIn(svcs) # {}
Retrieval == WebSearch \cup VideoSearch \cup DocSearch

(***************************************************************************)
(* C12.  A failure raised inside one retrieval stage never prevents the    *)
(* other stages from executing: when the web stage raises, the video and   *)
(* document stages (when enabled) are still invoked for the planned        *)
(* queries; when the video stage raises, the document stage is; and in     *)
(* every case the generation call is still made.                           *)
(* The stages are isolated from each other as claimed (each has its own    *)
(* try).  The generation call is not made when the classifier failed       *)
(* earlier in the same request (see C1).                                   *)
(***************************************************************************)
C12_StageFailureKeepsOtherStages ==
    (Done /\ Truthy(last_user_message)) =>
        /\ RaisedIn(WebSearch) # {} =>
              /\ include_ytb_search => StageRan(VideoSearch)
              /\ req.include_ai_search => StageRan(DocSearch)
        /\ RaisedIn(VideoSearch) # {} =>
              (req.include_ai_search => StageRan(DocSearch))
        /\ RaisedIn(Retrieval) # {} => Called(Generation)

\* the context blocks handed to the completion, and the place of a block's
\* source in the order of the stages
PassedContexts == IF IsBound(answer_messages) THEN Val(answer_messages).contexts ELSE <<>>
SourceRank(block) ==
    CASE block.label \in { "Web Search", "Grounding Search" } -> 1
      [] block.label = "Youtube Search" -> 2
      [] block.label = "Document Context" -> 3
      [] OTHER -> 0

(***************************************************************************)
(* C13.  For any number of planned queries, the context-block list passed  *)
(* to generation holds at most one block per retrieval source (one web     *)
(* block, one video block, one document block), in the order web, video,   *)
(* document.                                                               *)
(* The code appends the video block inside the query loop (lines 392-394): *)
(* a plan of N queries leaves up to N video blocks, each repeating the     *)
(* results of the ones before it.                                          *)
(***************************************************************************)
C13_OneBlockPerSourceInOrder ==
    Truthy(last_user_message) =>
    \A j \in DOMAIN PassedContexts : \A k \in DOMAIN PassedContexts :
        j < k => SourceRank(PassedContexts[j]) < SourceRank(PassedContexts[k])

\* the blocks the retrieval stages put into the context list
SourceBlocks == { k \in DOMAIN all_contexts : SourceRank(all_contexts[k]) > 0 }
\* results and texts a successful retrieval call returned
Returned ==
    { Result("web", calls[k].arg) : k \in CallsTo({ "search_single_query" }) \ RaisedIn(WebSearch) }
    \cup { Result("grounding", calls[k].arg) : k \in CallsTo({ "grounding_search_multi_query" }) }
    \cup { Result(VideoBackend, calls[k].arg) : k \in CallsTo(VideoSearch) }
    \cup { doc_log[k].text : k \in Admitted }

(***************************************************************************)
(* C14.  A source for which no query returned non-empty content            *)
(* contributes no block, never a block with an empty body; the context     *)
(* passed to generation is the sentinel "No relevant context found."       *)
(* exactly when no source contributed a block, and generation is then      *)
(* still invoked rather than an error reported.                            *)
(* The blocks and the sentinel are as claimed.  Generation is not invoked  *)
(* when the classifier failed earlier in the same request (see C1).        *)
(***************************************************************************)
C14_NoEmptyBlockAndSentinel ==
    (Truthy(last_user_message) /\ ~NeedsInput(last_user_message)) =>
        /\ \A k \in SourceBlocks :
             /\ all_contexts[k].body # <<>>
             /\ \A n \in DOMAIN all_contexts[k].body : all_contexts[k].body[n] \in Returned
        /\ Called(Generation) => (PassedContexts = << NoContext >> <=> SourceBlocks = {})
        /\ (Done /\ SourceBlocks = {}) => GenerationCalledWith(enriched_query)

\* the calls of the video stage, in the order they were made
IsVideoCall(c) == c.svc \in VideoSearch
VideoCalls == SelectSeq(calls, IsVideoCall)

(***************************************************************************)
(* C15.  The video stage issues exactly one backend call per planned       *)
(* query, in query order, passing that planned query as the search         *)
(* argument, through the protocol-mediated backend exactly when            *)
(* include_mcp_server is set and the direct backend otherwise; the         *)
(* non-empty results are concatenated in query order.                      *)
(* The code makes one call per query through the selected backend, but     *)
(* line 373 passes enriched_query to every one of them, not the planned    *)
(* query.                                                                  *)
(***************************************************************************)
C15_VideoCallPerPlannedQuery ==
    (Truthy(last_user_message) /\ ~NeedsInput(last_user_message)) =>
        /\ Len(VideoCalls) <= N
        /\ \A k \in DOMAIN VideoCalls :
             /\ VideoCalls[k].svc = (IF req.include_mcp_server THEN "youtube_mcp" ELSE "youtube")
             /\ k <= N => VideoCalls[k].arg = << search_queries[k] >>
        /\ (pc \in { "doc", "answer", "stream", "done" } /\ include_ytb_search
              /\ RaisedIn(VideoSearch) = {}) => Len(VideoCalls) = N
        /\ \A k \in DOMAIN youtube_search_contexts :
             \E n \in DOMAIN VideoCalls :
                /\ VideoCalls[n].res = "ok"
                /\ youtube_search_contexts[k].q = VideoCalls[n].arg
                /\ Cardinality({ m \in 1..n : VideoCalls[m].res = "ok" }) = k

\* the generator has passed line 520, the yield before prompt assembly
ReachedAssembly == \E k \in DOMAIN out : out[k] = Blank(" \n")

(***************************************************************************)
(* C16.  Whenever the pipeline reaches prompt assembly, the product        *)
(* template is used if and only if user_intent is product_query; every     *)
(* other intent, unknown values and a classification that produced no      *)
(* intent included, selects the general template, and assembly never       *)
(* raises.                                                                 *)
(* The code selects the templates as claimed for every intent the          *)
(* classifier produced.  When it produced none, user_intent was never      *)
(* assigned and the comparison of line 523 raises.                         *)
(***************************************************************************)
C16_TemplateByIntent ==
    (Truthy(last_user_message) /\ ReachedAssembly) =>
        /\ IsBound(answer_messages)
        /\ Val(answer_messages).template =
              IF IsBound(user_intent) /\ Val(user_intent) = "product_query"
              THEN "PRODUCT_ANSWER_PROMPT"
              ELSE "GENERAL_ANSWER_PROMPT"

\* the texts a budgeter's log admitted, in order
RECURSIVE AdmittedTextsOf(_)
AdmittedTextsOf(log) ==
    IF log = <<>> THEN <<>>
    ELSE LET rest == AdmittedTextsOf(SubSeq(log, 1, Len(log) - 1))
             last == log[Len(log)]
         IN  IF last.decision = "admitted" THEN Append(rest, last.text) ELSE rest

\* the state of an invocation is what its own request, its own classifier
\* answer, its own plan and its own search results make it
OwnStateOnly(f) ==
    LET small == IsBound(f.user_intent) /\ Val(f.user_intent) = "small_talk"
        mine == { f.search_queries[k] : k \in DOMAIN f.search_queries }
    IN  /\ f.seen_documents = { f.doc_log[k].id : k \in DOMAIN f.doc_log }
        /\ \A k \in DOMAIN f.doc_log :
             f.doc_log[k].decision = "duplicate" <=>
                \E j \in 1..(k - 1) : f.doc_log[j].id = f.doc_log[k].id
        /\ f.doc_contexts = AdmittedTextsOf(f.doc_log)
        /\ f.current_total_length = SumLen(AdmittedTextsOf(f.doc_log))
        /\ \A k \in DOMAIN f.all_contexts :
             f.all_contexts[k].label = "Document Context" =>
                f.all_contexts[k].body = f.doc_contexts
        /\ f.planning = (f.req.planning /\ ~small)
        /\ f.include_web_search = (f.req.include_web_search /\ ~small)
        /\ f.include_ytb_search = (f.req.include_ytb_search /\ ~small)
        /\ \A k \in DOMAIN f.out :
             f.out[k].kind = "status" =>
                /\ f.req.stream
                /\ f.out[k].label = "ai_search_context" => f.out[k].arg[1] \in mine
        /\ Cardinality({ k \in DOMAIN f.out : f.out[k].kind = "status"
                                               /\ f.out[k].label = "ai_search_context" })
              = (IF f.req.stream THEN Len(f.calls) - Cardinality({ k \in DOMAIN f.calls :
                        f.calls[k].svc \notin DocSearch }) ELSE 0)
        /\ Cardinality({ k \in DOMAIN f.out : f.out[k].kind = "answer" }) =
              (IF f.req.stream THEN f.chunks
               ELSE IF f.pc = "done" /\ f.calls # <<>> THEN 1 ELSE 0)

(***************************************************************************)
(* C17.  For two requests run on the same pipeline instance, interleaved   *)
(* at any suspension point or run one after the other, each request's      *)
(* dedup set, running length counter, context-block list, gating flags and *)
(* output sequence are those its own inputs and results give it; a         *)
(* document identity seen by one request is not a duplicate in the other.  *)
(***************************************************************************)
C17_RequestsDoNotShareState ==
    OwnStateOnly(Locals) /\ OwnStateOnly(peer)
\* witness: one invocation is suspended inside its document stage, the
\* other inside its streamed answer after small talk; each has admitted the
\* document "A" of the shared store
C17_Witness ==
    /\ pc = "doc" /\ i = 1
    /\ ~req.stream /\ planning
    /\ \E k \in DOMAIN doc_log : doc_log[k].id = T("A") /\ doc_log[k].decision = "admitted"
    /\ peer.pc = "stream" /\ peer.chunks = 1
    /\ peer.req.stream /\ peer.req.planning /\ ~peer.planning
    /\ \E k \in DOMAIN peer.doc_log :
         peer.doc_log[k].id = T("A") /\ peer.doc_log[k].decision = "admitted"

\* the hooks cleanup() has awaited
Awaited == { cleaned[k].svc : k \in DOMAIN cleaned }

(***************************************************************************)
(* C18.  cleanup() completes without raising for every subset of           *)
(* collaborators that lack a cleanup hook, invokes the cleanup hook of     *)
(* each collaborator that has one, and closes the model client.            *)
(* The code never raises, and it skips a plugin without a hook.  It looks  *)
(* at four of the eight plugins only, and a hook that raises ends the      *)
(* cleanup: the hooks after it are not invoked and the client stays open.  *)
(***************************************************************************)
C18_CleanupInvokesEveryHookAndCloses ==
    cleanup_pc = "returned" =>
        /\ \A p \in hooks : p \in Awaited
        /\ closed

\* the place of a collaborator in the order of the stages
StageRank(svc) ==
    CASE svc \in Classifier -> 1
      [] svc \in Planner -> 2
      [] svc \in WebSearch -> 3
      [] svc \in VideoSearch -> 4
      [] svc \in DocSearch -> 5
      [] svc \in Generation \cup StreamRead -> 6
\* the calls made to these collaborators, in the order they were made
IsCallTo(svcs, c) == c.svc \in svcs
CrawlCalls == SelectSeq(calls, LAMBDA c : IsCallTo({ "search_single_query" }, c))
DocCalls == SelectSeq(calls, LAMBDA c : IsCallTo(DocSearch, c))
\* the k-th call of a stage searched the k-th query of the plan
InPlanOrder(stage) ==
    /\ Len(stage) <= N
    /\ \A k \in DOMAIN stage : k <= N => stage[k].arg = << search_queries[k] >>

(***************************************************************************)
(* C19.  The collaborator calls of one request occur in the fixed stage    *)
(* order classifier, planner, web, video, document, generation: no call of *)
(* an earlier stage follows a call of a later one; within a stage the      *)
(* queries are processed one at a time in plan order; the classifier, the  *)
(* planner and the generation service are each called at most once.        *)
(***************************************************************************)
C19_CallsInStageOrder ==
    /\ \A j \in DOMAIN calls : \A k \in DOMAIN calls :
         j < k => StageRank(calls[j].svc) <= StageRank(calls[k].svc)
    /\ Cardinality(CallsTo(Classifier)) <= 1
    /\ Cardinality(CallsTo(Planner)) <= 1
    /\ Cardinality(CallsTo(Generation)) <= 1
    /\ Cardinality(CallsTo({ "grounding_search_multi_query" })) <= 1
    /\ InPlanOrder(CrawlCalls)
    /\ InPlanOrder(DocCalls)
    /\ Len(VideoCalls) <= N
\* witness: a finished request that called every stage, the three retrieval
\* stages for both queries of its plan
C19_Witness ==
    /\ Done
    /\ N = 2
    /\ Called(Classifier) /\ Called(Planner) /\ Called(Generation)
    /\ Len(CrawlCalls) = 2 /\ Len(VideoCalls) = 2 /\ Len(DocCalls) = 2

(***************************************************************************)
(* C20.  The elapsed-time fragment is emitted only when elapsed_time is    *)
(* enabled, at most once per request, and only after the last answer       *)
(* fragment: it never precedes an answer fragment, is never between two of *)
(* them, and is not emitted on a run that ends with the Error fragment.    *)
(***************************************************************************)
C20_ElapsedOnlyAfterTheAnswer ==
    /\ FragsOf("elapsed") # {} => req.elapsed_time
    /\ Cardinality(FragsOf("elapsed")) <= 1
    /\ \A e \in FragsOf("elapsed") : \A a \in FragsOf("answer") : a < e
    /\ FragsOf("error") # {} => FragsOf("elapsed") = {}
\* witness: a finished run that is not streamed, whose last fragment is the
\* elapsed-time fragment, after its one answer fragment
C20_Witness ==
    /\ Done
    /\ ~req.stream
    /\ req.elapsed_time
    /\ Cardinality(FragsOf("answer")) = 1
    /\ out[Len(out)] = Elapsed

\* the running length before the budgeter looked at the k-th logged document
TotalBefore(k) == SumLen(AdmittedUpTo(k - 1))

(***************************************************************************)
(* C21.  At every point of the document stage the running aggregate length *)
(* equals the sum of the lengths of the admitted document texts and never  *)
(* exceeds the global ceiling of 400,000 characters; a document is         *)
(* admitted only if the running length plus the length of its text is at   *)
(* or below the ceiling.                                                   *)
(***************************************************************************)
C21_RunningLengthUnderCeiling ==
    /\ current_total_length = TotalBefore(Len(doc_log) + 1)
    /\ current_total_length <= MAX_CONTEXT_LENGTH
    /\ \A k \in Admitted :
         TotalBefore(k) + StrLen(doc_log[k].text) <= MAX_CONTEXT_LENGTH
    /\ \A k \in DOMAIN doc_log :
         doc_log[k].decision = "rejected" =>
            TotalBefore(k) + StrLen(doc_log[k].text) > MAX_CONTEXT_LENGTH
\* witness: the fortieth document of 10,000 characters was admitted at the
\* ceiling exactly, and the stage stopped before the last query of the plan
C21_Witness ==
    /\ current_total_length = MAX_CONTEXT_LENGTH
    /\ Cardinality(Admitted) = 40
    /\ pc = "answer"
    /\ Len(DocCalls) < N

\* the document has no usable id, title or url
Anonymous(doc) == ~Truthy(doc.id) /\ ~Truthy(doc.title) /\ ~Truthy(doc.url)
\* the identity the document at position (q, doc_idx) is to have
ClaimedIdentity(doc, q, doc_idx) ==
    IF Truthy(doc.id) THEN doc.id
    ELSE IF Truthy(doc.title) THEN doc.title
    ELSE IF Truthy(doc.url) THEN doc.url
    ELSE T2("doc", q, doc_idx)

(***************************************************************************)
(* C22.  A document's dedup identity is its id if non-empty, else its      *)
(* title if non-empty, else its url if non-empty, else the synthetic token *)
(* built from the query index and the document index; two documents with   *)
(* no usable id, title or url at different (query, document) positions     *)
(* never share an identity and are never deduplicated against each other.  *)
(* The code takes the url whenever the key is present (line 442: the       *)
(* synthetic token is only the default of doc.get('url', ...)): an empty   *)
(* url is the identity of every document that has nothing else.            *)
(***************************************************************************)
C22_IdentityFallsBackToPosition ==
    /\ \A k \in DOMAIN doc_log :
         doc_log[k].id = ClaimedIdentity(doc_log[k].doc, doc_log[k].q, doc_log[k].doc_idx)
    /\ \A j \in DOMAIN doc_log : \A k \in DOMAIN doc_log :
         (j < k /\ Anonymous(doc_log[j].doc) /\ Anonymous(doc_log[k].doc)) =>
            /\ doc_log[j].id # doc_log[k].id
            /\ doc_log[k].decision # "duplicate"

(***************************************************************************)
(* C23.  When the classifier returns small_talk, the request performs no   *)
(* search of any kind: besides the web and video searches, the             *)
(* indexed-document search is not invoked either, whatever the caller      *)
(* supplied for include_ai_search.                                         *)
(* The code turns off planning, include_web_search and include_ytb_search  *)
(* (lines 226-228) and leaves include_ai_search alone: the document stage  *)
(* searches the one query of line 209.                                     *)
(***************************************************************************)
C23_SmallTalkSearchesNoDocuments ==
    (Truthy(last_user_message) /\ SmallTalk) => ~Called(Retrieval)


(***************************************************************************)
(* C24.  The verbose flag affects only status fragments: of two runs of    *)
(* generate_response on the same inputs, given the same collaborator       *)
(* responses and differing only in verbose, the second makes the calls the *)
(* first made, in the same order and with the same arguments, and ends     *)
(* with the same planned query list, the same context-block list, the same *)
(* prompt passed to generation and the same answer fragments.              *)
(***************************************************************************)
\* the fragments of a stream that are not status fragments
NonStatus(o) == SelectSeq(o, LAMBDA f : f.kind # "status")
\* the second run is under way, the first one is kept in peer
Rerun == running = 2 /\ peer.pc = "done"

C24_VerboseOnlyAffectsStatus ==
    Rerun =>
        /\ Len(calls) <= Len(peer.calls)
        /\ \A k \in DOMAIN calls : calls[k] = peer.calls[k]
        /\ Done =>
             /\ Len(calls) = Len(peer.calls)
             /\ search_queries = peer.search_queries
             /\ all_contexts = peer.all_contexts
             /\ answer_messages = peer.answer_messages
             /\ NonStatus(out) = NonStatus(peer.out)

\* both runs have ended with an answer, the verbose one after a status
\* fragment the other did not yield
C24_Witness ==
    /\ Rerun /\ Done
    /\ req.stream /\ req.verbose # peer.req.verbose
    /\ out # peer.out
    /\ Called(WebSearch) /\ Called(DocSearch) /\ Called(Planner)
    /\ \E k \in DOMAIN out : out[k].kind = "answer"
    /\ \E k \in DOMAIN out : ReportsError(out[k])
    /\ ~ \E k \in DOMAIN peer.out : ReportsError(peer.out[k])


(***************************************************************************)
(* C25.  In the document stage a document is skipped as a duplicate only   *)
(* if a document with the same identity was admitted into the aggregate    *)
(* earlier in the same request; a document that was seen but not admitted  *)
(* (no usable content or summary, or rejected by the length ceiling) does  *)
(* not cause a later document with the same identity and usable text to be *)
(* excluded.                                                               *)
(* The code records the identity on line 448, before it looks at the       *)
(* content (line 465) or at the ceiling (line 472): a document of that     *)
(* identity that comes later is skipped on line 444 although nothing was   *)
(* admitted under it.                                                      *)
(***************************************************************************)
C25_DuplicateOnlyOfAdmitted ==
    \A k \in DOMAIN doc_log :
        (doc_log[k].decision = "duplicate" /\ ContentToAdd(doc_log[k].doc) # NoStr) =>
            \E j \in Admitted : j < k /\ doc_log[j].id = doc_log[k].id


\* the hooks that raised when cleanup() awaited them
RaisedHooks == { cleaned[k].svc : k \in { n \in DOMAIN cleaned : cleaned[n].res = "raise" } }

(***************************************************************************)
(* C26.  cleanup() releases every resource even under partial failure: if  *)
(* the cleanup hook of one collaborator raises, the cleanup hooks of the    *)
(* remaining collaborators are still invoked and the close of the model    *)
(* client is still awaited, and cleanup() itself returns.                  *)
(* The code returns without raising, but its single try (lines 586-609)    *)
(* ends at the first hook that raises: the hooks after it and the client's *)
(* close are skipped.  Only the plugins cleanup() inspects are counted     *)
(* here.                                                                   *)
(***************************************************************************)
C26_CleanupSurvivesPartialFailure ==
    (cleanup_pc = "returned" /\ RaisedHooks \cap Inspected # {}) =>
        /\ \A p \in hooks \cap Inspected : p \in Awaited
        /\ "client" \in Awaited

=============================================================================
